---- MODULE Spec2Model ----
(***************************************************************************)
(* VAmPI database bootstrap (tools/bootstrap.py): the command-line entry,  *)
(* the three-phase build (reset, default users, sample users and books),   *)
(* and the allocators of login handles and book titles.                    *)
(*                                                                         *)
(* Strings are TLC strings: handles, e-mail addresses, titles and secrets  *)
(* are built by concatenation exactly as the f-strings of the source build *)
(* them, so that equality of two generated strings is decided on the text. *)
(***************************************************************************)
EXTENDS Integers, Sequences, FiniteSets, TLC

(***************************************************************************)
(* Bounds of the model.                                                    *)
(***************************************************************************)
\* Largest --users and --books-per-user explored, and the largest number of
\* books (users * books per user) a run of the explored arguments creates.
MaxUsers == 2
MaxBooks == 2
MaxTotalBooks == 4
\* The build draws names, genres and topics from the first entries of the
\* pools of the source.
NumFirstNames == 1
NumLastNames == 1
NumGenres == 1
NumTopics == 1

(***************************************************************************)
(* Sample data of the source.                                              *)
(***************************************************************************)
FIRST_NAMES ==
    << "Alice", "Bob", "Charlie", "Diana", "Eve", "Frank", "Grace",
       "Henry", "Iris", "Jack", "Kate", "Liam", "Maya", "Noah", "Olivia",
       "Peter", "Quinn", "Rachel", "Sam", "Tara", "Uma", "Victor", "Wendy",
       "Xavier", "Yara", "Zach", "Aria", "Blake", "Chloe", "Derek" >>

LAST_NAMES ==
    << "Smith", "Johnson", "Williams", "Brown", "Jones", "Garcia",
       "Miller", "Davis", "Rodriguez", "Martinez", "Hernandez", "Lopez",
       "Gonzalez", "Wilson", "Anderson", "Thomas", "Taylor", "Moore",
       "Jackson", "Martin", "Lee", "Perez", "Thompson", "White", "Harris",
       "Sanchez", "Clark" >>

BOOK_GENRES ==
    << "Mystery", "SciFi", "Fantasy", "Romance", "Thriller", "Horror",
       "Historical", "Biography", "Technical", "Poetry", "Drama",
       "Comedy" >>

BOOK_TOPICS ==
    << "Dragons", "Space", "Magic", "Detective", "Love", "War",
       "Time Travel", "Artificial Intelligence", "Ancient Civilizations",
       "Vampires", "Zombies", "Robots", "Pirates", "Ninjas", "Superheroes",
       "Mythology", "Ocean", "Mountain", "Desert", "Forest", "Castle",
       "Laboratory", "City", "Village" >>

SECRET_PREFIXES ==
    << "The hidden truth about", "The secret behind",
       "What nobody knows about", "The mystery of", "The untold story of",
       "The real meaning of", "The classified information regarding",
       "The confidential details about" >>

SECRET_SUFFIXES ==
    << "the main character's true identity", "the ending nobody expected",
       "the author's real inspiration",
       "the hidden chapter that was removed", "the alternate ending",
       "the sequel that never happened",
       "the real-life events it's based on",
       "the controversial plot twist" >>

EMAIL_DOMAINS ==
    << "example.com", "test.com", "demo.com", "sample.org", "vampi.io" >>

\* default_users with the admin flag of "admin" left False.
default_users_no_admin ==
    << [username |-> "admin", password |-> "pass1",
        email |-> "admin@mail.com", admin |-> FALSE],
       [username |-> "name1", password |-> "pass1",
        email |-> "mail1@mail.com", admin |-> FALSE],
       [username |-> "name2", password |-> "pass2",
        email |-> "mail2@mail.com", admin |-> FALSE] >>

\* default_users: (username, password, email, is_admin)
default_users ==
    << [username |-> "admin", password |-> "pass1",
        email |-> "admin@mail.com", admin |-> TRUE],
       [username |-> "name1", password |-> "pass1",
        email |-> "mail1@mail.com", admin |-> FALSE],
       [username |-> "name2", password |-> "pass2",
        email |-> "mail2@mail.com", admin |-> FALSE] >>

\* The handles of the default users.
FixedHandles == {default_users[k].username : k \in DOMAIN default_users}

\* The attempt bound of the title loop (while attempts < 100).
MaxAttempts == 100

(***************************************************************************)
(* Library functions.                                                      *)
(***************************************************************************)
Min(a, b) == IF a <= b THEN a ELSE b

\* str.lower() on the names of the two name pools.
LowerTable ==
    [ Alice |-> "alice", Bob |-> "bob", Charlie |-> "charlie",
      Diana |-> "diana", Eve |-> "eve", Frank |-> "frank",
      Grace |-> "grace", Henry |-> "henry", Iris |-> "iris",
      Jack |-> "jack", Kate |-> "kate", Liam |-> "liam", Maya |-> "maya",
      Noah |-> "noah", Olivia |-> "olivia", Peter |-> "peter",
      Quinn |-> "quinn", Rachel |-> "rachel", Sam |-> "sam",
      Tara |-> "tara", Uma |-> "uma", Victor |-> "victor",
      Wendy |-> "wendy", Xavier |-> "xavier", Yara |-> "yara",
      Zach |-> "zach", Aria |-> "aria", Blake |-> "blake",
      Chloe |-> "chloe", Derek |-> "derek", Smith |-> "smith",
      Johnson |-> "johnson", Williams |-> "williams", Brown |-> "brown",
      Jones |-> "jones", Garcia |-> "garcia", Miller |-> "miller",
      Davis |-> "davis", Rodriguez |-> "rodriguez",
      Martinez |-> "martinez", Hernandez |-> "hernandez",
      Lopez |-> "lopez", Gonzalez |-> "gonzalez", Wilson |-> "wilson",
      Anderson |-> "anderson", Thomas |-> "thomas", Taylor |-> "taylor",
      Moore |-> "moore", Jackson |-> "jackson", Martin |-> "martin",
      Lee |-> "lee", Perez |-> "perez", Thompson |-> "thompson",
      White |-> "white", Harris |-> "harris", Sanchez |-> "sanchez",
      Clark |-> "clark" ]

Lower(s) == LowerTable[s]

\* The first n entries of a pool.
Prefix(pool, n) == SubSeq(pool, 1, Min(n, Len(pool)))

Range(s) == {s[k] : k \in DOMAIN s}

\* random.choice(pool): any entry.
Choice(pool) == Range(pool)

\* The first and the last entry of a pool, and its first entry alone: the
\* draws explored where the source draws from a fixed list of phrases.
Ends(pool) == SubSeq(pool, 1, 1) \o SubSeq(pool, Len(pool), Len(pool))
First(pool) == SubSeq(pool, 1, 1)

\* random.randrange(a, b): an integer of a .. b-1; the model draws the two
\* ends of the range.
randrange(a, b) == {a, b - 1}

\* random.sample(pool, k): any sequence of k distinct entries of the pool.
Sample(pool, k) ==
    {s \in [1..k -> Range(pool)] : \A a, b \in 1..k : a # b => s[a] # s[b]}

RECURSIVE SumSeq(_)
SumSeq(s) == IF s = <<>> THEN 0 ELSE Head(s) + SumSeq(Tail(s))

(***************************************************************************)
(* generate_username, generate_email, generate_book_title, generate_secret *)
(***************************************************************************)
RECURSIVE UsernameLoop(_, _, _, _)
UsernameLoop(base_username, username, counter, existing) ==
    IF username \in existing
    THEN UsernameLoop(base_username, base_username \o ToString(counter),
                      counter + 1, existing)
    ELSE username

\* generate_username without its loop: the handle is never checked against
\* the used handles.
generate_username_unchecked(first_name, last_name, existing) ==
    Lower(first_name) \o "." \o Lower(last_name)

generate_username(first_name, last_name, existing) ==
    LET base_username == Lower(first_name) \o "." \o Lower(last_name)
    IN  UsernameLoop(base_username, base_username, 1, existing)

\* The domain argument of generate_email: None when it is not supplied, or
\* a string.
None == <<>>
Some(domain) == << domain >>

\* generate_email with the supplied domain ignored: the domain is always
\* drawn from the list.
generate_email_domain_ignored(username, domain) ==
    [k \in DOMAIN EMAIL_DOMAINS |-> username \o "@" \o EMAIL_DOMAINS[k]]

\* The addresses generate_email(username, domain) may return, in the order
\* of its list of domains: "domain or choice(domains)" draws from the list
\* when the domain is None and when it is the empty string.
generate_email(username, domain) ==
    IF domain = None \/ domain = Some("")
    THEN [k \in DOMAIN EMAIL_DOMAINS |-> username \o "@" \o EMAIL_DOMAINS[k]]
    ELSE << username \o "@" \o domain[1] >>

templates(genre, topic) ==
    << "The " \o genre \o " of " \o topic,
       topic \o ": A " \o genre \o " Story",
       "The " \o topic \o " " \o genre,
       genre \o " in " \o topic,
       "Tales of " \o topic,
       "The Last " \o topic,
       "Journey to " \o topic,
       "Chronicles of " \o topic,
       "The " \o topic \o " Conspiracy",
       "Secrets of " \o topic >>

\* The titles generate_book_title(genre, topic) may return.
generate_book_title(genre, topic) ==
    Choice(Ends(templates(genre, topic)))

\* The secrets generate_secret(book_title) may return.
generate_secret(book_title) ==
    {prefix \o " '" \o book_title \o "': " \o suffix :
        prefix \in Choice(First(SECRET_PREFIXES)),
        suffix \in Choice(First(SECRET_SUFFIXES))}

\* The titles one sampling of the title loop may produce: a genre, a topic,
\* and a template.
SampledTitles ==
    UNION {generate_book_title(genre, topic) :
              genre \in Choice(Prefix(BOOK_GENRES, NumGenres)),
              topic \in Choice(Prefix(BOOK_TOPICS, NumTopics))}

\* The fallback title without the count of books created so far.
FallbackTitles_no_count(idx, created) ==
    {"Book " \o ToString(r) \o "-" \o ToString(idx) : r \in randrange(10000, 99999)}

\* The fallback titles of the title loop for user index i.
FallbackTitles(idx, created) ==
    {"Book " \o ToString(r) \o "-" \o ToString(idx) \o "-" \o ToString(created) :
        r \in randrange(10000, 99999)}

\* What the title loop leaves for one book, as [title, used]: a sampled title
\* that was not in all_used_titles, which it adds to the set, or, after
\* MaxAttempts samplings that were all in the set, a fallback title, which it
\* does not add.
\* The title loop without the test "title not in all_used_titles".
AcceptedTitles_unchecked(used) ==
    {[title |-> t, used |-> used \cup {t}] : t \in SampledTitles}

AcceptedTitles(used) ==
    {[title |-> t, used |-> used \cup {t}] : t \in SampledTitles \ used}

ExhaustedTitles(used, idx, created) ==
    IF SampledTitles \cap used # {}
    THEN {[title |-> t, used |-> used] : t \in FallbackTitles(idx, created)}
    ELSE {}

TitleLoop(used, idx, created) ==
    AcceptedTitles(used) \cup ExhaustedTitles(used, idx, created)

(***************************************************************************)
(* State.                                                                  *)
(***************************************************************************)
VARIABLES
    pc,                 \* position of the process
    num_users,          \* args.users
    books_per_user,     \* args.books_per_user
    exit_code,          \* exit status of the process, -1 while it runs
    db,                 \* the durable store: [tables, users]
    session,            \* db.session: the users added and not yet committed
    calls,              \* calls issued to the store: [reset, create, commit],
                        \* and how many of them raised: failed
    d,                  \* index into default_users
    existing_usernames,
    all_used_titles,
    first_names,
    last_names,
    i,
    users_created,
    books_created,
    user_books,
    b,                  \* books made for the current user
    title,              \* the last title of the title loop
    attempts,           \* attempts of the title loop
    run,                \* "first" or "second" run of the program on the store
    prev,               \* what the store held after a first run that exited
                        \* with 0: [users, books], the counts
    frame               \* the locals of a function that is followed step by
                        \* step on its own (SpecUsername, SpecTitle,
                        \* SpecNames); empty in a run of the program

vars ==
    << pc, num_users, books_per_user, exit_code, db, session, calls, d,
       existing_usernames, all_used_titles, first_names, last_names, i,
       users_created, books_created, user_books, b, title, attempts, run,
       prev, frame >>

args == << num_users, books_per_user >>
locals ==
    << d, existing_usernames, all_used_titles, first_names, last_names, i,
       users_created, books_created, user_books, b, title, attempts >>
history == << run, prev >>

\* The Book and User entities.
Book(book_title, secret_content) ==
    [book_title |-> book_title, secret_content |-> secret_content]

\* User(...) called without admin=: the flag keeps its default.
User_admin_dropped(username, password, email, admin) ==
    [username |-> username, password |-> password, email |-> email,
     admin |-> FALSE, books |-> <<>>]

User(username, password, email, admin) ==
    [username |-> username, password |-> password, email |-> email,
     admin |-> admin, books |-> <<>>]

NumBooks(users) == SumSeq([k \in DOMAIN users |-> Len(users[k].books)])

\* What a store may hold before a run: nothing (no tables yet), or the tables
\* with a user and a book left by earlier use of the application.
PriorStores ==
    { [tables |-> FALSE, users |-> <<>>],
      [tables |-> TRUE,
       users |-> << [username |-> "alice.smith", password |-> "changed",
                     email |-> "alice.smith@example.com", admin |-> TRUE,
                     books |-> << Book("The Mystery of Dragons", "old") >>] >>] }

\* The values the locals of a process have before bootstrap_database runs.
NoCalls == [reset |-> 0, create |-> 0, commit |-> 0, failed |-> 0]

LocalsInit ==
    /\ d = 0
    /\ existing_usernames = {}
    /\ all_used_titles = {}
    /\ first_names = <<>>
    /\ last_names = <<>>
    /\ i = 0
    /\ users_created = 0
    /\ books_created = 0
    /\ user_books = <<>>
    /\ b = 0
    /\ title = ""
    /\ attempts = 0

\* The command lines explored: every pair of -1 .. MaxUsers and
\* -1 .. MaxBooks that asks for at most MaxTotalBooks books.
Arguments ==
    {a \in (-1 .. MaxUsers) \X (-1 .. MaxBooks) :
        (a[1] >= 1 /\ a[2] >= 1) => a[1] * a[2] <= MaxTotalBooks}

Init ==
    /\ pc = "main"
    /\ \E a \in Arguments :
          /\ num_users = a[1]
          /\ books_per_user = a[2]
    /\ exit_code = -1
    /\ db \in PriorStores
    /\ session = <<>>
    /\ calls = NoCalls
    /\ LocalsInit
    /\ run = "first"
    /\ prev = [users |-> -1, books |-> -1]
    /\ frame = <<>>

(***************************************************************************)
(* main and bootstrap_database.                                            *)
(***************************************************************************)
FirstNamePool == Prefix(FIRST_NAMES, NumFirstNames)
LastNamePool == Prefix(LAST_NAMES, NumLastNames)

\* A call to the store that returns, and one that raises: the exception
\* leaves bootstrap_database for the handler of main.
Issue(call) == calls' = [calls EXCEPT ![call] = @ + 1]

Fails(call) ==
    /\ calls' = [calls EXCEPT ![call] = @ + 1, !.failed = @ + 1]
    /\ pc' = "raised"

\* A commit that replaces the rows of the store by the pending users.
Committed_overwrites(store, pending) == [store EXCEPT !.users = pending]

\* session.commit(): the pending users, with their books, become durable.
Committed(store, pending) == [store EXCEPT !.users = @ \o pending]

\* main with the comparisons "< 0" for "< 1".
Validate_off_by_one ==
    /\ pc = "main"
    /\ IF num_users < 0 \/ books_per_user < 0
       THEN /\ exit_code' = 1
            /\ pc' = "exit"
       ELSE /\ exit_code' = exit_code
            /\ pc' = "drop_all"
    /\ UNCHANGED << args, db, session, calls, locals, history, frame >>

\* main: the validation of the arguments, and the test of the warning.
Validate ==
    /\ pc = "main"
    /\ IF num_users < 1 \/ books_per_user < 1
       THEN /\ exit_code' = 1
            /\ pc' = "exit"
       ELSE /\ exit_code' = exit_code
            /\ pc' = IF num_users > 1000 THEN "warning" ELSE "drop_all"
    /\ UNCHANGED << args, db, session, calls, locals, history, frame >>

\* The warning taken for an error: the process exits with 1.
Warning_fatal ==
    /\ pc = "warning"
    /\ exit_code' = 1
    /\ pc' = "exit"
    /\ UNCHANGED << args, db, session, calls, locals, history, frame >>

\* main: the warning is printed, and main goes on to the build. A run of at
\* most MaxUsers users never comes here.
Warning ==
    /\ pc = "warning"
    /\ pc' = "drop_all"
    /\ UNCHANGED << args, exit_code, db, session, calls, locals, history, frame >>

\* bootstrap_database without db.drop_all(): the rows stay.
DropAll_skipped ==
    /\ pc = "drop_all"
    /\ \/ /\ Issue("reset")
          /\ db' = db
          /\ pc' = "create_all"
       \/ /\ Fails("reset")
          /\ db' = db
    /\ UNCHANGED << args, exit_code, session, locals, history, frame >>

\* db.drop_all()
DropAll ==
    /\ pc = "drop_all"
    /\ \/ /\ Issue("reset")
          /\ db' = [tables |-> FALSE, users |-> <<>>]
          /\ pc' = "create_all"
       \/ /\ Fails("reset")
          /\ db' = db
    /\ UNCHANGED << args, exit_code, session, locals, history, frame >>

\* db.create_all() called again after it raised once.
CreateAll_retried ==
    /\ pc = "create_all"
    /\ \/ /\ Issue("reset")
          /\ db' = [db EXCEPT !.tables = TRUE]
          /\ existing_usernames' = {}
          /\ d' = 0
          /\ pc' = "defaults"
       \/ /\ calls' = [calls EXCEPT !.reset = @ + 1, !.failed = @ + 1]
          /\ pc' = IF calls.failed = 0 THEN pc ELSE "raised"
          /\ UNCHANGED << db, existing_usernames, d >>
    /\ UNCHANGED << args, exit_code, session, all_used_titles, first_names,
                    last_names, i, users_created, books_created, user_books,
                    b, title, attempts, history, frame >>

\* db.create_all(), and the set of used handles
CreateAll ==
    /\ pc = "create_all"
    /\ \/ /\ Issue("reset")
          /\ db' = [db EXCEPT !.tables = TRUE]
          /\ existing_usernames' = {}
          /\ d' = 0
          /\ pc' = "defaults"
       \/ /\ Fails("reset")
          /\ UNCHANGED << db, existing_usernames, d >>
    /\ UNCHANGED << args, exit_code, session, all_used_titles, first_names,
                    last_names, i, users_created, books_created, user_books,
                    b, title, attempts, history, frame >>

\* The loop over default_users without "existing_usernames.add(username)".
AddDefaultUser_handle_unused ==
    /\ pc = "defaults"
    /\ d < Len(default_users)
    /\ LET u == default_users[d + 1]
       IN  \/ /\ Issue("create")
              /\ session' = Append(session,
                      User(u.username, u.password, u.email, u.admin))
              /\ existing_usernames' = existing_usernames
              /\ d' = d + 1
              /\ pc' = pc
           \/ /\ Fails("create")
              /\ UNCHANGED << session, existing_usernames, d >>
    /\ UNCHANGED << args, exit_code, db, all_used_titles, first_names,
                    last_names, i, users_created, books_created, user_books,
                    b, title, attempts, history, frame >>

\* One iteration of the loop over default_users.
AddDefaultUser ==
    /\ pc = "defaults"
    /\ d < Len(default_users)
    /\ LET u == default_users[d + 1]
       IN  \/ /\ Issue("create")
              /\ session' = Append(session,
                      User(u.username, u.password, u.email, u.admin))
              /\ existing_usernames' = existing_usernames \cup {u.username}
              /\ d' = d + 1
              /\ pc' = pc
           \/ /\ Fails("create")
              /\ UNCHANGED << session, existing_usernames, d >>
    /\ UNCHANGED << args, exit_code, db, all_used_titles, first_names,
                    last_names, i, users_created, books_created, user_books,
                    b, title, attempts, history, frame >>

\* The loop over default_users without a commit of its own: the default
\* users wait in the session for the final commit.
CommitDefaults_deferred ==
    /\ pc = "defaults"
    /\ d = Len(default_users)
    /\ pc' = "sample"
    /\ UNCHANGED << args, exit_code, db, session, calls, locals, history, frame >>

\* The commit of the default users.
CommitDefaults ==
    /\ pc = "defaults"
    /\ d = Len(default_users)
    /\ \/ /\ Issue("commit")
          /\ db' = Committed(db, session)
          /\ session' = <<>>
          /\ pc' = "sample"
       \/ /\ Fails("commit")
          /\ UNCHANGED << db, session >>
    /\ UNCHANGED << args, exit_code, locals, history, frame >>

\* The samples of names without "all_used_titles = set()": the set keeps what
\* it held.
SampleNames_titles_kept ==
    /\ pc = "sample"
    /\ users_created' = 0
    /\ books_created' = 0
    /\ all_used_titles' = all_used_titles
    /\ first_names' \in Sample(FirstNamePool, Min(num_users, Len(FirstNamePool)))
    /\ last_names' \in Sample(LastNamePool, Min(num_users, Len(LastNamePool)))
    /\ i' = 0
    /\ pc' = "users"
    /\ UNCHANGED << args, exit_code, db, session, calls, d,
                    existing_usernames, user_books, b, title, attempts,
                    history, frame >>

\* The counters, the set of used titles and the two samples of names.
SampleNames ==
    /\ pc = "sample"
    /\ users_created' = 0
    /\ books_created' = 0
    /\ all_used_titles' = {}
    /\ first_names' \in Sample(FirstNamePool, Min(num_users, Len(FirstNamePool)))
    /\ last_names' \in Sample(LastNamePool, Min(num_users, Len(LastNamePool)))
    /\ i' = 0
    /\ pc' = "users"
    /\ UNCHANGED << args, exit_code, db, session, calls, d,
                    existing_usernames, user_books, b, title, attempts,
                    history, frame >>

\* The handle of the user of index idx, with the first name taken at the
\* index of the last name.
NextUsername_one_index(idx, firsts, lasts, existing) ==
    generate_username(firsts[(idx % Len(lasts)) + 1],
                      lasts[(idx % Len(lasts)) + 1], existing)

\* The handle of the user of index idx.
NextUsername(idx, firsts, lasts, existing) ==
    generate_username(firsts[(idx % Len(firsts)) + 1],
                      lasts[(idx % Len(lasts)) + 1], existing)

\* The iteration without "user_books = []": the list of the previous user
\* is carried over.
CreateUser_books_kept ==
    /\ pc = "users"
    /\ i < num_users
    /\ LET username ==
               NextUsername(i, first_names, last_names, existing_usernames)
       IN  /\ existing_usernames' = existing_usernames \cup {username}
           /\ \/ \E n \in randrange(1000, 9999),
                    email \in Choice(First(generate_email(username, None))),
                    r \in randrange(0, 100) :
                    /\ Issue("create")
                    /\ session' = Append(session,
                           User(username, "pass" \o ToString(n), email, r < 10))
                    /\ users_created' = users_created + 1
                    /\ user_books' = user_books
                    /\ b' = 0
                    /\ pc' = "books"
              \/ /\ Fails("create")
                 /\ UNCHANGED << session, users_created, user_books, b >>
    /\ UNCHANGED << args, exit_code, db, d, all_used_titles, first_names,
                    last_names, i, books_created, title, attempts, history, frame >>

\* The head of one iteration of the loop over the sample users: the user.
CreateUser ==
    /\ pc = "users"
    /\ i < num_users
    /\ LET username ==
               NextUsername(i, first_names, last_names, existing_usernames)
       IN  /\ existing_usernames' = existing_usernames \cup {username}
           /\ \/ \E n \in randrange(1000, 9999),
                    email \in Choice(First(generate_email(username, None))),
                    r \in randrange(0, 100) :
                    /\ Issue("create")
                    /\ session' = Append(session,
                           User(username, "pass" \o ToString(n), email, r < 10))
                    /\ users_created' = users_created + 1
                    /\ user_books' = <<>>
                    /\ b' = 0
                    /\ pc' = "books"
              \/ /\ Fails("create")
                 /\ UNCHANGED << session, users_created, user_books, b >>
    /\ UNCHANGED << args, exit_code, db, d, all_used_titles, first_names,
                    last_names, i, books_created, title, attempts, history, frame >>

\* One iteration of the loop over the books of the user.
CreateBook ==
    /\ pc = "books"
    /\ b < books_per_user
    /\ \E o \in TitleLoop(all_used_titles, i, books_created) :
       \E secret \in generate_secret(o.title) :
          /\ title' = o.title
          /\ all_used_titles' = o.used
          /\ user_books' = Append(user_books, Book(o.title, secret))
    /\ books_created' = books_created + 1
    /\ b' = b + 1
    /\ UNCHANGED << pc, args, exit_code, db, session, calls, d,
                    existing_usernames, first_names, last_names, i,
                    users_created, attempts, history, frame >>

\* user.books assigned to the first user of the session rather than to the
\* user of this iteration.
AttachBooks_first_user ==
    /\ pc = "books"
    /\ b = books_per_user
    /\ session' = [session EXCEPT ![1].books = user_books]
    /\ i' = i + 1
    /\ pc' = "users"
    /\ UNCHANGED << args, exit_code, db, calls, d, existing_usernames,
                    all_used_titles, first_names, last_names, users_created,
                    books_created, user_books, b, title, attempts, history, frame >>

\* user.books followed by a commit in every iteration of the loop.
AttachBooks_commit_per_user ==
    /\ pc = "books"
    /\ b = books_per_user
    /\ Issue("commit")
    /\ db' = Committed(db, [session EXCEPT ![Len(session)].books = user_books])
    /\ session' = <<>>
    /\ i' = i + 1
    /\ pc' = "users"
    /\ UNCHANGED << args, exit_code, d, existing_usernames,
                    all_used_titles, first_names, last_names, users_created,
                    books_created, user_books, b, title, attempts, history, frame >>

\* The end of one iteration of the loop over the sample users: user.books.
AttachBooks ==
    /\ pc = "books"
    /\ b = books_per_user
    /\ session' = [session EXCEPT ![Len(session)].books = user_books]
    /\ i' = i + 1
    /\ pc' = "users"
    /\ UNCHANGED << args, exit_code, db, calls, d, existing_usernames,
                    all_used_titles, first_names, last_names, users_created,
                    books_created, user_books, b, title, attempts, history, frame >>

\* A final commit that has written the first pending user when it raises.
CommitAll_partial ==
    /\ pc = "users"
    /\ i = num_users
    /\ \/ /\ Issue("commit")
          /\ db' = Committed(db, session)
          /\ session' = <<>>
          /\ pc' = "return"
       \/ /\ Fails("commit")
          /\ db' = Committed(db, SubSeq(session, 1, 1))
          /\ session' = Tail(session)
    /\ UNCHANGED << args, exit_code, locals, history, frame >>

\* The commit of the sample users and their books.
CommitAll ==
    /\ pc = "users"
    /\ i = num_users
    /\ \/ /\ Issue("commit")
          /\ db' = Committed(db, session)
          /\ session' = <<>>
          /\ pc' = "return"
       \/ /\ Fails("commit")
          /\ UNCHANGED << db, session >>
    /\ UNCHANGED << args, exit_code, locals, history, frame >>

\* bootstrap_database returns, and main with it.
Return ==
    /\ pc = "return"
    /\ exit_code' = 0
    /\ pc' = "exit"
    /\ UNCHANGED << args, db, session, calls, locals, history, frame >>

\* The handler without sys.exit(1): main returns after the diagnostic.
HandleException_no_exit ==
    /\ pc = "raised"
    /\ exit_code' = 0
    /\ pc' = "exit"
    /\ UNCHANGED << args, db, session, calls, locals, history, frame >>

\* except Exception: sys.exit(1)
HandleException ==
    /\ pc = "raised"
    /\ exit_code' = 1
    /\ pc' = "exit"
    /\ UNCHANGED << args, db, session, calls, locals, history, frame >>

\* The program is run again, with the same arguments, on the store the
\* previous run left.
Rerun ==
    /\ pc = "exit"
    /\ run = "first"
    /\ run' = "second"
    /\ prev' = IF exit_code = 0
               THEN [users |-> Len(db.users), books |-> NumBooks(db.users)]
               ELSE prev
    /\ pc' = "main"
    /\ exit_code' = -1
    /\ session' = <<>>
    /\ calls' = NoCalls
    /\ d' = 0
    /\ existing_usernames' = {}
    /\ all_used_titles' = {}
    /\ first_names' = <<>>
    /\ last_names' = <<>>
    /\ i' = 0
    /\ users_created' = 0
    /\ books_created' = 0
    /\ user_books' = <<>>
    /\ b' = 0
    /\ title' = ""
    /\ attempts' = 0
    /\ UNCHANGED << args, db, frame >>

Next ==
    \/ Validate
    \/ DropAll
    \/ CreateAll
    \/ AddDefaultUser
    \/ CommitDefaults
    \/ SampleNames
    \/ CreateUser
    \/ CreateBook
    \/ AttachBooks
    \/ CommitAll
    \/ Return
    \/ HandleException
    \/ Rerun

Spec == Init /\ [][Next]_vars

(***************************************************************************)
(* generate_username, step by step, on any names of the pools and on sets  *)
(* of used handles drawn from the handle of the names, its suffixed forms  *)
(* and the fixed handles.                                                  *)
(***************************************************************************)
\* The largest suffix among the used handles drawn.
MaxSuffix == 3

\* The variables a function followed on its own does not use.
Unused(position) ==
    /\ pc = position
    /\ exit_code = -1
    /\ db = [tables |-> TRUE, users |-> <<>>]
    /\ session = <<>>
    /\ calls = NoCalls
    /\ d = Len(default_users)
    /\ users_created = 0
    /\ user_books = <<>>
    /\ b = 0
    /\ run = "first"
    /\ prev = [users |-> -1, books |-> -1]

UsedHandleSets(base_username) ==
    {suffixed \cup fixed :
        suffixed \in SUBSET ({base_username} \cup
                     {base_username \o ToString(k) : k \in 1 .. MaxSuffix}),
        fixed \in {{}, FixedHandles}}

InitUsername ==
    /\ Unused("generate_username")
    /\ num_users = 1
    /\ books_per_user = 1
    /\ \E first_name \in Range(FirstNamePool), last_name \in Range(LastNamePool) :
          /\ frame = [first_name |-> first_name, last_name |-> last_name,
                      base_username |-> "", username |-> "", counter |-> 0]
          /\ existing_usernames \in
                 UsedHandleSets(Lower(first_name) \o "." \o Lower(last_name))
    /\ all_used_titles = {}
    /\ first_names = <<>>
    /\ last_names = <<>>
    /\ i = 0
    /\ books_created = 0
    /\ title = ""
    /\ attempts = 0

\* The counter started at 0 instead of 1.
UsernameEnter_from_zero ==
    /\ pc = "generate_username"
    /\ LET base_username ==
               Lower(frame.first_name) \o "." \o Lower(frame.last_name)
       IN  frame' = [frame EXCEPT !.base_username = base_username,
                                  !.username = base_username,
                                  !.counter = 0]
    /\ pc' = "username_loop"
    /\ UNCHANGED << args, exit_code, db, session, calls, locals, history >>

\* base_username, username and counter before the loop.
UsernameEnter ==
    /\ pc = "generate_username"
    /\ LET base_username ==
               Lower(frame.first_name) \o "." \o Lower(frame.last_name)
       IN  frame' = [frame EXCEPT !.base_username = base_username,
                                  !.username = base_username,
                                  !.counter = 1]
    /\ pc' = "username_loop"
    /\ UNCHANGED << args, exit_code, db, session, calls, locals, history >>

\* The body of the loop with the counter left as it is.
UsernameRetry_counter_kept ==
    /\ pc = "username_loop"
    /\ frame.username \in existing_usernames
    /\ frame' = [frame EXCEPT
                    !.username = frame.base_username \o ToString(frame.counter)]
    /\ UNCHANGED << pc, args, exit_code, db, session, calls, locals, history >>

\* One iteration of the loop: the username is in existing_usernames.
UsernameRetry ==
    /\ pc = "username_loop"
    /\ frame.username \in existing_usernames
    /\ frame' = [frame EXCEPT
                    !.username = frame.base_username \o ToString(frame.counter),
                    !.counter = frame.counter + 1]
    /\ UNCHANGED << pc, args, exit_code, db, session, calls, locals, history >>

\* The loop ends and the username is returned.
UsernameReturn ==
    /\ pc = "username_loop"
    /\ frame.username \notin existing_usernames
    /\ pc' = "username_done"
    /\ UNCHANGED << args, exit_code, db, session, calls, locals, history, frame >>

NextUsernameStep ==
    \/ UsernameEnter
    \/ UsernameRetry
    \/ UsernameReturn

\* The process is sequential: a step that can be taken is taken.
SpecUsername ==
    InitUsername /\ [][NextUsernameStep]_vars /\ WF_vars(NextUsernameStep)

(***************************************************************************)
(* The title loop of one book, step by step, on every set of used titles   *)
(* and every pair of counters a run can enter it with.                     *)
(***************************************************************************)
TitleInputs ==
    {in \in [used : SUBSET SampledTitles, idx : 0 .. MaxUsers - 1,
             created : 0 .. MaxTotalBooks - 1] :
        /\ in.idx <= in.created
        /\ Cardinality(in.used) <= in.created
        /\ in.created > 0 => in.used # {}}

InitTitle ==
    /\ Unused("title_enter")
    /\ num_users = MaxUsers
    /\ books_per_user = MaxBooks
    /\ \E in \in TitleInputs :
          /\ all_used_titles = in.used
          /\ i = in.idx
          /\ books_created = in.created
          /\ frame = [used |-> in.used, sampled |-> 0, fallbacks |-> 0]
    /\ existing_usernames = {}
    /\ first_names = <<>>
    /\ last_names = <<>>
    /\ title = ""
    /\ attempts \in {0, MaxAttempts}

\* attempts = 0
TitleEnter ==
    /\ pc = "title_enter"
    /\ attempts' = 0
    /\ pc' = "title_loop"
    /\ UNCHANGED << args, exit_code, db, session, calls, d,
                    existing_usernames, all_used_titles, first_names,
                    last_names, i, users_created, books_created, user_books,
                    b, title, history, frame >>

\* The condition of the loop with "<=" for "<".
LoopContinues_off_by_one(n) == n <= MaxAttempts

\* while attempts < 100
LoopContinues(n) == n < MaxAttempts

\* The iteration without its break: an accepted title is added to the set
\* and the loop goes on.
TitleSample_no_break ==
    /\ pc = "title_loop"
    /\ LoopContinues(attempts)
    /\ \E t \in SampledTitles :
          /\ title' = t
          /\ all_used_titles' = all_used_titles \cup {t}
          /\ attempts' = attempts + 1
          /\ pc' = pc
    /\ frame' = [frame EXCEPT !.sampled = @ + 1]
    /\ UNCHANGED << args, exit_code, db, session, calls, d,
                    existing_usernames, first_names, last_names, i,
                    users_created, books_created, user_books, b, history >>

\* One iteration of the loop: a title is sampled, and is accepted if it is
\* not in all_used_titles.
TitleSample ==
    /\ pc = "title_loop"
    /\ LoopContinues(attempts)
    /\ \E t \in SampledTitles :
          /\ title' = t
          /\ IF t \notin all_used_titles
             THEN /\ all_used_titles' = all_used_titles \cup {t}
                  /\ attempts' = attempts
                  /\ pc' = "title_done"
             ELSE /\ all_used_titles' = all_used_titles
                  /\ attempts' = attempts + 1
                  /\ pc' = pc
    /\ frame' = [frame EXCEPT !.sampled = @ + 1]
    /\ UNCHANGED << args, exit_code, db, session, calls, d,
                    existing_usernames, first_names, last_names, i,
                    users_created, books_created, user_books, b, history >>

\* The else branch of the loop: the fallback title.
TitleFallback ==
    /\ pc = "title_loop"
    /\ ~LoopContinues(attempts)
    /\ title' \in FallbackTitles(i, books_created)
    /\ pc' = "title_done"
    /\ frame' = [frame EXCEPT !.fallbacks = @ + 1]
    /\ UNCHANGED << args, exit_code, db, session, calls, d,
                    existing_usernames, all_used_titles, first_names,
                    last_names, i, users_created, books_created, user_books,
                    b, attempts, history >>

NextTitleStep ==
    \/ TitleEnter
    \/ TitleSample
    \/ TitleFallback

SpecTitle == InitTitle /\ [][NextTitleStep]_vars

(***************************************************************************)
(* The handles of the sample users, one user at a time, on the whole name  *)
(* pools of the source: the part of the loop over the sample users that    *)
(* reads and writes existing_usernames.                                    *)
(***************************************************************************)
\* The samples of names drawn: the pool, starting at each of its first
\* NumRotations entries.
NumRotations == 2

\* The values of --users followed.
NamesUsers == {1, 27, 30, 50, 270, 271, 541}

\* A sample drawn with replacement: the name of the first draw comes again
\* at the last draw of a sample as long as the pool.
Rotation_with_replacement(pool, r, k) ==
    [j \in 1 .. k |-> pool[((j - 1 + r) % (Len(pool) - 1)) + 1]]

\* A sample of k names of the pool: k names in pool order, from entry r + 1.
Rotation(pool, r, k) == [j \in 1 .. k |-> pool[((j - 1 + r) % Len(pool)) + 1]]

InitNames ==
    /\ Unused("names")
    /\ num_users \in NamesUsers
    /\ books_per_user = 1
    /\ existing_usernames = FixedHandles
    /\ all_used_titles = {}
    /\ \E r \in 0 .. NumRotations - 1 :
          first_names =
              Rotation(FIRST_NAMES, r, Min(num_users, Len(FIRST_NAMES)))
    /\ \E r \in 0 .. NumRotations - 1 :
          last_names =
              Rotation(LAST_NAMES, r, Min(num_users, Len(LAST_NAMES)))
    /\ i = 0
    /\ books_created = 0
    /\ title = ""
    /\ attempts = 0
    /\ frame = [usernames |-> <<>>]

\* One iteration: the names of the user, its handle, and the set of used
\* handles.
AllocateUsername ==
    /\ pc = "names"
    /\ i < num_users
    /\ LET username ==
               NextUsername(i, first_names, last_names, existing_usernames)
       IN  /\ existing_usernames' = existing_usernames \cup {username}
           /\ frame' = [frame EXCEPT !.usernames = Append(@, username)]
    /\ i' = i + 1
    /\ UNCHANGED << pc, args, exit_code, db, session, calls, d,
                    all_used_titles, first_names, last_names, users_created,
                    books_created, user_books, b, title, attempts, history >>

NextNamesStep == AllocateUsername

SpecNames == InitNames /\ [][NextNamesStep]_vars

(***************************************************************************)
(* The command line: parser.parse_args() on the tokens of sys.argv[1:],    *)
(* followed by the run of the program on the values it parsed.             *)
(***************************************************************************)
\* The option strings of the parser and the attribute each one sets.
OptionDest == [users |-> "--users", books_per_user |-> "--books-per-user"]

OptionStrings == {OptionDest[dest] : dest \in DOMAIN OptionDest}

\* type=int: int(token) of a decimal numeral is its value; any other token
\* raises ValueError.
IntLiterals == {ToString(n) : n \in -1 .. MaxTotalBooks}

int(token) == CHOOSE n \in -1 .. MaxTotalBooks : ToString(n) = token

\* The namespace before any token is read: the defaults of the two options.
Namespace == [users |-> 20, books_per_user |-> 5, error |-> FALSE]

\* parse_args: an option string takes the next token as its value and
\* converts it with int; parser.error is called for a missing value, for a
\* value int rejects and for a token that is not an option of the parser.
RECURSIVE parse_args(_, _)
parse_args(argv, namespace) ==
    IF argv = <<>>
    THEN namespace
    ELSE IF Head(argv) \notin OptionStrings
    THEN [namespace EXCEPT !.error = TRUE]
    ELSE IF Len(argv) < 2 \/ argv[2] \in OptionStrings
    THEN [namespace EXCEPT !.error = TRUE]
    ELSE IF argv[2] \notin IntLiterals
    THEN [namespace EXCEPT !.error = TRUE]
    ELSE LET dest == CHOOSE k \in DOMAIN OptionDest : OptionDest[k] = Head(argv)
         IN  parse_args(SubSeq(argv, 3, Len(argv)),
                        [namespace EXCEPT ![dest] = int(argv[2])])

\* The command lines explored: each option absent, or given with a numeral
\* of -1 .. MaxUsers (MaxBooks), with a word, with a decimal fraction or
\* with no value; then possibly a positional argument. A command line that
\* parses is explored if its build is: its values fail the validation, or
\* are within MaxUsers, MaxBooks and MaxTotalBooks.
OptionTokens(option, largest) ==
    {<<>>, << option >>}
        \cup {<< option, ToString(n) >> : n \in -1 .. largest}
        \cup {<< option, word >> : word \in {"abc", "1.5"}}

CommandLines ==
    {argv \in {u \o bk \o p : u \in OptionTokens("--users", MaxUsers),
                              bk \in OptionTokens("--books-per-user", MaxBooks),
                              p \in {<<>>, << "extra" >>}} :
        LET ns == parse_args(argv, Namespace)
        IN  \/ ns.error
            \/ ns.users < 1
            \/ ns.books_per_user < 1
            \/ /\ ns.users <= MaxUsers
               /\ ns.books_per_user <= MaxBooks
               /\ ns.users * ns.books_per_user <= MaxTotalBooks}

InitCLI ==
    /\ pc = "parse_args"
    /\ num_users = Namespace.users
    /\ books_per_user = Namespace.books_per_user
    /\ exit_code = -1
    /\ db \in PriorStores
    /\ session = <<>>
    /\ calls = NoCalls
    /\ LocalsInit
    /\ run = "first"
    /\ prev = [users |-> -1, books |-> -1]
    /\ \E argv \in CommandLines : frame = [argv |-> argv]

\* args = parser.parse_args(): parser.error prints the usage and exits with
\* status 2.
ParseArgs ==
    /\ pc = "parse_args"
    /\ LET ns == parse_args(frame.argv, Namespace)
       IN  IF ns.error
           THEN /\ exit_code' = 2
                /\ pc' = "exit"
                /\ UNCHANGED args
           ELSE /\ num_users' = ns.users
                /\ books_per_user' = ns.books_per_user
                /\ exit_code' = exit_code
                /\ pc' = "main"
    /\ UNCHANGED << db, session, calls, locals, history, frame >>

\* One process, from its command line to its exit.
NextCLI ==
    \/ ParseArgs
    \/ Validate
    \/ DropAll
    \/ CreateAll
    \/ AddDefaultUser
    \/ CommitDefaults
    \/ SampleNames
    \/ CreateUser
    \/ CreateBook
    \/ AttachBooks
    \/ CommitAll
    \/ Return
    \/ HandleException

SpecCLI == InitCLI /\ [][NextCLI]_vars

(***************************************************************************)
(* bootstrap_database called a second time in the same process, by a       *)
(* caller that handles its exception as main does. The second call gets    *)
(* the arguments of the first. The application context of the first call   *)
(* has been left, and its session with it. The locals of the second call   *)
(* are unbound until their assignments: they are shown with the values the *)
(* first call left, which the second call must not read.                   *)
(***************************************************************************)
Invoke ==
    /\ pc \in {"return", "raised"}
    /\ run = "first"
    /\ run' = "second"
    /\ prev' = IF pc = "return"
               THEN [users |-> Len(db.users), books |-> NumBooks(db.users)]
               ELSE prev
    /\ pc' = "drop_all"
    /\ session' = <<>>
    /\ calls' = NoCalls
    /\ UNCHANGED << args, exit_code, db, locals, frame >>

NextRepeat ==
    \/ Validate
    \/ DropAll
    \/ CreateAll
    \/ AddDefaultUser
    \/ CommitDefaults
    \/ SampleNames
    \/ CreateUser
    \/ CreateBook
    \/ AttachBooks
    \/ CommitAll
    \/ Return
    \/ HandleException
    \/ Invoke

SpecRepeat == Init /\ [][NextRepeat]_vars

(***************************************************************************)
(* main on values of --users around the threshold of its warning, followed *)
(* up to the loop over the sample users: the reset, the default users and  *)
(* the samples of names. The loop itself is not followed for such values.  *)
(***************************************************************************)
\* The values of --users and --books-per-user followed.
WarnUsers == {1, 1000, 1001, 1002}
WarnBooks == {0, 1, MaxBooks}

InitWarn ==
    /\ pc = "main"
    /\ num_users \in WarnUsers
    /\ books_per_user \in WarnBooks
    /\ exit_code = -1
    /\ db \in PriorStores
    /\ session = <<>>
    /\ calls = NoCalls
    /\ LocalsInit
    /\ run = "first"
    /\ prev = [users |-> -1, books |-> -1]
    /\ frame = <<>>

NextWarn ==
    \/ Validate
    \/ Warning
    \/ DropAll
    \/ CreateAll
    \/ AddDefaultUser
    \/ CommitDefaults
    \/ SampleNames
    \/ HandleException

SpecWarn == InitWarn /\ [][NextWarn]_vars

(***************************************************************************)
(* generate_email on its own, with and without a supplied domain, beside   *)
(* the runs of the program, which call it without one.                     *)
(***************************************************************************)
\* The handles generate_username returns for the names of the pools.
EmailHandles ==
    UNION {{generate_username(first_name, last_name, used) :
                used \in UsedHandleSets(Lower(first_name) \o "." \o Lower(last_name))} :
              first_name \in Range(FirstNamePool),
              last_name \in Range(LastNamePool)}

\* The domain arguments: not supplied, the empty string, a domain that is
\* not in the list, a domain of the list.
EmailDomains == {None, Some(""), Some("corp.example"), Some("test.com")}

InitEmail ==
    /\ Unused("generate_email")
    /\ num_users = 1
    /\ books_per_user = 1
    /\ \E username \in EmailHandles, domain \in EmailDomains :
          frame = [username |-> username, domain |-> domain, email |-> ""]
    /\ existing_usernames = {}
    /\ all_used_titles = {}
    /\ first_names = <<>>
    /\ last_names = <<>>
    /\ i = 0
    /\ books_created = 0
    /\ title = ""
    /\ attempts = 0

\* One call of generate_email.
GenerateEmail ==
    /\ pc = "generate_email"
    /\ \E email \in Choice(generate_email(frame.username, frame.domain)) :
          frame' = [frame EXCEPT !.email = email]
    /\ pc' = "email_done"
    /\ UNCHANGED << args, exit_code, db, session, calls, locals, history >>

NextEmail ==
    \/ GenerateEmail
    \/ Next

SpecEmail == (Init \/ InitEmail) /\ [][NextEmail]_vars

(***************************************************************************)
(* Properties of a run.                                                    *)
(***************************************************************************)
Valid == num_users >= 1 /\ books_per_user >= 1

\* The process has ended with exit code 0.
Succeeded == pc = "exit" /\ exit_code = 0

Distinct(s) == \A j, k \in DOMAIN s : j # k => s[j] # s[k]

Usernames(users) == [k \in DOMAIN users |-> users[k].username]

RECURSIVE Titles(_)
Titles(users) ==
    IF users = <<>>
    THEN <<>>
    ELSE [k \in DOMAIN Head(users).books |-> Head(users).books[k].book_title]
         \o Titles(Tail(users))

\* C1: after a successful run the login handles of all users of the store
\* (the three fixed accounts and the num_users sample users) are pairwise
\* distinct, and no sample user has the handle of a fixed account.
C1_HandlesDistinct ==
    Succeeded =>
        /\ Len(db.users) = Len(default_users) + num_users
        /\ Distinct(Usernames(db.users))
        /\ \A k \in DOMAIN db.users :
              k > Len(default_users) => db.users[k].username \notin FixedHandles

\* A successful run in which a name pair repeated and a suffix was needed.
C1_Witness ==
    /\ Succeeded
    /\ num_users = 2
    /\ \E k \in DOMAIN db.users : db.users[k].username = "alice.smith1"

\* C2: after a successful run the titles of all books of the store are
\* pairwise distinct across all users, also when users * books per user
\* exceeds the number of titles the templates can produce and the fallback
\* title is used.
C2_TitlesDistinct ==
    Succeeded =>
        /\ Len(Titles(db.users)) = num_users * books_per_user
        /\ Distinct(Titles(db.users))

\* A successful run with more books than template titles, some of them with
\* a fallback title, and two users owning books.
C2_Witness ==
    /\ Succeeded
    /\ num_users = 2
    /\ num_users * books_per_user > Cardinality(SampledTitles)
    /\ \E k \in DOMAIN Titles(db.users) : Titles(db.users)[k] \notin SampledTitles
    /\ \E k \in DOMAIN Titles(db.users) : Titles(db.users)[k] \in SampledTitles

\* C3: after a successful run, for every value of --users, each of the three
\* fixed handles belongs to exactly one user, with the literal password,
\* e-mail and admin flag of default_users: admin/pass1 (admin), name1/pass1
\* and name2/pass2 (not admin).
C3_FixedAccounts ==
    Succeeded =>
        /\ Cardinality({k \in DOMAIN db.users :
                           db.users[k].username \in FixedHandles}) = 3
        /\ \A u \in {[username |-> "admin", password |-> "pass1", admin |-> TRUE],
                     [username |-> "name1", password |-> "pass1", admin |-> FALSE],
                     [username |-> "name2", password |-> "pass2", admin |-> FALSE]} :
              /\ Cardinality({k \in DOMAIN db.users :
                                 db.users[k].username = u.username}) = 1
              /\ \A k \in DOMAIN db.users :
                    db.users[k].username = u.username =>
                        /\ db.users[k].password = u.password
                        /\ db.users[k].admin = u.admin
        /\ \A k \in DOMAIN db.users :
              db.users[k].username \notin FixedHandles =>
                  db.users[k].password \notin {"pass1", "pass2"}

\* A successful run with two sample users, one of them an admin.
C3_Witness ==
    /\ Succeeded
    /\ num_users = 2
    /\ \E k \in DOMAIN db.users :
          db.users[k].username \notin FixedHandles /\ db.users[k].admin

\* C4: after a successful run the store holds num_users * books_per_user
\* books, as many as the run counted, and no fixed account owns a book.
C4_BookCount ==
    Succeeded =>
        /\ NumBooks(db.users) = num_users * books_per_user
        /\ books_created = num_users * books_per_user
        /\ \A k \in DOMAIN db.users :
              db.users[k].username \in FixedHandles => db.users[k].books = <<>>

\* A successful run of two users with two books each.
C4_Witness ==
    /\ Succeeded
    /\ num_users = 2
    /\ books_per_user = 2
    /\ NumBooks(db.users) = 4

\* C5: with --users < 1 or --books-per-user < 1 the process issues no call to
\* the store and leaves it as it was, and it ends with exit code 1.
C5_InvalidArguments ==
    /\ [](~Valid => /\ calls = NoCalls
                    /\ session = <<>>
                    /\ pc \in {"main", "exit"}
                    /\ (pc = "exit" => exit_code = 1))
    /\ [][~Valid => db' = db]_vars

\* The process has ended on --users 0, on a store that held a user.
C5_Witness ==
    /\ num_users = 0
    /\ books_per_user >= 1
    /\ pc = "exit"
    /\ exit_code = 1
    /\ Len(db.users) = 1

\* C6: a second successful run with the same arguments leaves num_users + 3
\* users and num_users * books_per_user books, the counts a successful first
\* run left, whatever the store held before either run.
C6_Idempotent ==
    Succeeded =>
        /\ Len(db.users) = num_users + 3
        /\ NumBooks(db.users) = num_users * books_per_user
        /\ (run = "second" /\ prev.users # -1) =>
              /\ Len(db.users) = prev.users
              /\ NumBooks(db.users) = prev.books

\* A second successful run after a successful first run.
C6_Witness ==
    /\ Succeeded
    /\ run = "second"
    /\ num_users = 2
    /\ prev = [users |-> 5, books |-> 2 * books_per_user]

\* C10: with valid arguments the process ends with exit code 0 exactly when
\* no call raised and the final commit made the whole dataset durable, and
\* with exit code 1 when a call raised.
C10_ExitCode ==
    (pc = "exit" /\ Valid) =>
        /\ exit_code \in {0, 1}
        /\ exit_code = 0 <=> calls.failed = 0
        /\ exit_code = 0 <=> /\ calls.commit = 2
                             /\ session = <<>>
                             /\ Len(db.users) = num_users + 3
        /\ exit_code = 1 <=> calls.failed = 1

\* A run that ended with exit code 1 because the final commit raised.
C10_Witness ==
    /\ pc = "exit"
    /\ Valid
    /\ exit_code = 1
    /\ calls.commit = 2
    /\ calls.failed = 1

\* The steps the title loop has taken: attempts = 0, the samplings, the
\* fallback.
TitleSteps ==
    (IF pc = "title_enter" THEN 0 ELSE 1) + frame.sampled + frame.fallbacks

\* C8: the title loop of one book ends without raising, whatever the set of
\* used titles it starts with (also the set of all titles of the pools): it
\* samples at most 100 titles and takes the fallback at most once, and only
\* after 100 samplings; until it has ended it has a next step, every step
\* adds to the samplings or to the fallback, and it ends with a title.
C8_TitleLoopTerminates ==
    /\ [](/\ attempts <= MaxAttempts
          /\ frame.sampled <= MaxAttempts
          /\ frame.fallbacks <= 1
          /\ frame.fallbacks = 1 => frame.sampled = MaxAttempts
          /\ TitleSteps <= MaxAttempts + 2)
    /\ [](pc # "title_done" => ENABLED NextTitleStep)
    /\ [][TitleSteps' = TitleSteps + 1]_vars
    /\ [](pc = "title_done" =>
             /\ ~ENABLED NextTitleStep
             /\ title # ""
             /\ frame.fallbacks = 1 <=> title \in FallbackTitles(i, books_created)
             /\ frame.fallbacks = 0 <=> title \in SampledTitles)

\* The loop has ended on the set of all titles of the pools: 100 samplings,
\* then the fallback.
C8_Witness ==
    /\ pc = "title_done"
    /\ frame.used = SampledTitles
    /\ frame.sampled = MaxAttempts
    /\ frame.fallbacks = 1
    /\ title \in FallbackTitles(i, books_created)

\* What the stepped loop leaves is what TitleLoop says, which is how a run of
\* the program takes the loop.
TitleLoopSummary ==
    pc = "title_done" =>
        [title |-> title, used |-> all_used_titles]
            \in TitleLoop(frame.used, i, books_created)

\* C9: generate_username returns, for every set of used handles, and what it
\* returns is not in the set.
C9_UsernameTerminates ==
    /\ <>(pc = "username_done")
    /\ [](pc = "username_done" =>
             /\ frame.username \notin existing_usernames
             /\ frame.username =
                    generate_username(frame.first_name, frame.last_name,
                                      existing_usernames))
    /\ [](pc = "username_loop" => frame.counter <= Cardinality(existing_usernames) + 1)

\* generate_username has returned after two iterations of its loop.
C9_Witness ==
    /\ pc = "username_done"
    /\ frame.counter = 3
    /\ frame.username = "alice.smith2"
    /\ {"alice.smith", "alice.smith1"} \subseteq existing_usernames

\* The names of the sample user of index idx, and the handle without suffix
\* that generate_username first tries for them.
NamePair(idx) ==
    << first_names[(idx % Len(first_names)) + 1],
       last_names[(idx % Len(last_names)) + 1] >>

PlainHandle(idx) == Lower(NamePair(idx)[1]) \o "." \o Lower(NamePair(idx)[2])

\* All handles of a run of --users 50 have been allocated.
Allocated50 == pc = "names" /\ num_users = 50 /\ i = num_users

\* C7 as stated: a run of --users 50 yields 50 distinct handles, among which
\* name pairs repeat, the repeated pairs being told apart by a suffix.
C7_SuffixesAt50 ==
    Allocated50 =>
        /\ Len(frame.usernames) = 50
        /\ Distinct(frame.usernames)
        /\ \E j, k \in 0 .. 49 :
              /\ j < k
              /\ NamePair(j) = NamePair(k)
              /\ frame.usernames[k + 1] # PlainHandle(k)

\* C7, amended: a run of --users 50 yields 50 distinct handles, none of them a
\* fixed handle; no name pair repeats among the 50 users, so that every
\* handle is the plain "first.last" of its user and none has a suffix.
C7_UniqueAt50 ==
    Allocated50 =>
        /\ Len(frame.usernames) = 50
        /\ Distinct(frame.usernames)
        /\ \A k \in 0 .. 49 : frame.usernames[k + 1] \notin FixedHandles
        /\ \A j, k \in 0 .. 49 : j # k => NamePair(j) # NamePair(k)
        /\ \A k \in 0 .. 49 : frame.usernames[k + 1] = PlainHandle(k)

\* The 50 handles of a run on the pools in their order: user 31 is the first
\* to reuse a first name, user 28 the first to reuse a last name.
C7_Witness ==
    /\ Allocated50
    /\ frame.usernames[1] = "alice.smith"
    /\ frame.usernames[28] = "blake.smith"
    /\ frame.usernames[31] = "alice.brown"
    /\ frame.usernames[50] = "tara.thompson"

\* Every option of the command line is followed by a value.
HasValues(argv) ==
    \A k \in DOMAIN argv :
        argv[k] \in OptionStrings =>
            k < Len(argv) /\ argv[k + 1] \notin OptionStrings

\* The command line is malformed: a value is not an integer or a positional
\* argument is present (the parser rejects it), or a value is below 1.
Malformed(argv) ==
    LET ns == parse_args(argv, Namespace)
    IN  HasValues(argv) /\ (ns.error \/ ns.users < 1 \/ ns.books_per_user < 1)

\* C11: on any malformed command line (a value below 1, a value that is not
\* an integer, an unexpected positional argument) the process issues no call
\* to the store and ends with exit code 1.
C11_MalformedExitsOne ==
    Malformed(frame.argv) =>
        /\ calls = NoCalls
        /\ db.users = <<>> \/ db \in PriorStores
        /\ pc \in {"parse_args", "main", "exit"}
        /\ pc = "exit" => exit_code = 1

\* The users of a store that are not fixed accounts.
Population(users) ==
    {k \in DOMAIN users : users[k].username \notin FixedHandles}

\* C12: after a successful run with arguments (N, B) the store holds the
\* three fixed accounts and exactly N more users, N + 3 in all, and exactly
\* N * B books, all of them owned by the N population users; nothing of
\* what the store held before the run is left.
C12_StoreCounts ==
    Succeeded =>
        /\ Cardinality(DOMAIN db.users \ Population(db.users)) = 3
        /\ Cardinality(Population(db.users)) = num_users
        /\ Len(db.users) = num_users + 3
        /\ users_created = num_users
        /\ NumBooks([k \in 1 .. num_users |-> db.users[k + 3]])
               = num_users * books_per_user
        /\ NumBooks(SubSeq(db.users, 1, 3)) = 0
        /\ \A k \in DOMAIN db.users : db.users[k].password # "changed"

\* A successful run of two users with one book each.
C12_Witness ==
    /\ Succeeded
    /\ num_users = 2
    /\ books_per_user = 1
    /\ Cardinality(Population(db.users)) = 2
    /\ NumBooks(db.users) = 2

\* C13: after a successful run the store holds a user with the admin flag,
\* whatever flags the population users drew: the fixed account "admin" has
\* it.
C13_AdminExists ==
    Succeeded =>
        /\ \E k \in DOMAIN db.users : db.users[k].admin
        /\ \E k \in DOMAIN db.users :
              db.users[k].username = "admin" /\ db.users[k].admin

\* A successful run in which no population user drew the admin flag.
C13_Witness ==
    /\ Succeeded
    /\ num_users = 2
    /\ \A k \in Population(db.users) : ~db.users[k].admin

\* db.drop_all() of this run has returned.
Dropped == calls.reset >= 2 \/ (calls.reset = 1 /\ calls.failed = 0)

\* The users a build has created so far: those the store holds since the
\* reset, and those of the session.
Created == (IF Dropped THEN db.users ELSE <<>>) \o session

Emails(users) == [k \in DOMAIN users |-> users[k].email]

\* The addresses of a handle on the domains of the list.
PoolEmails(username) ==
    {username \o "@" \o EMAIL_DOMAINS[k] : k \in DOMAIN EMAIL_DOMAINS}

\* What holds of the users of a build, of each one when it has just been
\* added to the session and of all of them once the build has succeeded:
\* every user has an e-mail address, the address of a population user is
\* its own handle, "@" and a domain of the list, and no two users have the
\* same address.
BuildEmails ==
    /\ pc = "defaults" => \A k \in DOMAIN session : session[k].email # ""
    /\ (pc = "books" /\ b = 0) =>
          LET user == session[Len(session)]
          IN  /\ user.email \in PoolEmails(user.username)
              /\ \A k \in DOMAIN Created :
                    Created[k].email = user.email =>
                        Created[k].username = user.username
    /\ Succeeded =>
          /\ \A k \in DOMAIN db.users : db.users[k].email # ""
          /\ \A k \in Population(db.users) :
                db.users[k].email \in PoolEmails(db.users[k].username)
          /\ Distinct(Emails(db.users))

\* C14 as stated: every user of a build has an e-mail address, that of a
\* population user being its own handle, "@" and a domain of the list; and
\* generate_email returns the handle, "@" and a domain of the list when no
\* domain is supplied, and the handle, "@" and the supplied domain otherwise.
C14_EmailOfSuppliedDomain ==
    /\ BuildEmails
    /\ pc = "email_done" =>
          IF frame.domain = None
          THEN frame.email \in PoolEmails(frame.username)
          ELSE frame.email = frame.username \o "@" \o frame.domain[1]

\* C14, amended: as stated, except that a supplied domain that is the empty
\* string counts as not supplied: the domain is then drawn from the list.
\* The address tells the handle: no other handle yields it for any domain.
C14_EmailOfDomain ==
    /\ BuildEmails
    /\ pc = "email_done" =>
          /\ IF frame.domain \in {None, Some("")}
             THEN frame.email \in PoolEmails(frame.username)
             ELSE frame.email = frame.username \o "@" \o frame.domain[1]
          /\ \A username \in EmailHandles \ {frame.username},
                domain \in EmailDomains :
                frame.email \notin Range(generate_email(username, domain))

\* generate_email has returned an address for a supplied domain that is the
\* empty string: the domain is the last of the list.
C14_Witness ==
    /\ pc = "email_done"
    /\ frame.domain = Some("")
    /\ frame.email = "alice.smith1@vampi.io"

\* The phase of the build, read from the position of the process and, once
\* the process has ended, from the calls it issued: no call at all when the
\* arguments were rejected, two commits and no failure when the build was
\* committed, a failed call when it failed.
Phase ==
    CASE pc \in {"main", "warning"} -> "Uninitialized"
      [] pc \in {"drop_all", "create_all"} -> "Resetting"
      [] pc = "defaults" -> "SeedingDefaults"
      [] pc \in {"sample", "users", "books"} -> "SeedingPopulation"
      [] pc = "return" -> "Committed"
      [] pc = "raised" -> "Failed"
      [] pc = "exit" /\ calls = NoCalls -> "Uninitialized"
      [] pc = "exit" /\ calls.failed = 0 /\ calls.commit = 2 -> "Committed"
      [] pc = "exit" /\ calls.failed > 0 -> "Failed"
      [] OTHER -> "Unknown"

PhaseRank ==
    [Uninitialized |-> 0, Resetting |-> 1, SeedingDefaults |-> 2,
     SeedingPopulation |-> 3, Committed |-> 4, Failed |-> 5]

\* A step stays in its phase, enters the next phase of the order, or leaves
\* one of the three working phases for Failed; a new process starts at
\* Uninitialized.
PhaseStep ==
    IF run' # run
    THEN Phase \in {"Uninitialized", "Committed", "Failed"}
         /\ Phase' = "Uninitialized"
    ELSE \/ Phase' = Phase
         \/ /\ PhaseRank[Phase'] = PhaseRank[Phase] + 1
            /\ Phase' # "Failed"
         \/ /\ Phase \in {"Resetting", "SeedingDefaults", "SeedingPopulation"}
            /\ Phase' = "Failed"

\* C15: the phases of a build follow one another in the order Resetting,
\* SeedingDefaults, SeedingPopulation, Committed, none skipped and none
\* revisited, Failed being the only other end; the store is dropped and
\* recreated before any user or book exists, the three fixed accounts are
\* created and durable before any population user exists, and the final
\* commit is issued when the last population user has been created.
C15_PhaseOrder ==
    /\ [](Phase \in DOMAIN PhaseRank)
    /\ [][PhaseStep]_vars
    /\ []((session # <<>> \/ user_books # <<>> \/ books_created > 0) =>
             /\ calls.reset = 2
             /\ db.tables
             /\ \A k \in DOMAIN db.users : db.users[k].password # "changed")
    /\ []((users_created > 0 \/ Population(Created) # {}) =>
             /\ d = Len(default_users)
             /\ calls.commit >= 1
             /\ Len(db.users) >= 3
             /\ SubSeq(Usernames(db.users), 1, 3) = << "admin", "name1", "name2" >>)
    /\ [][(calls.commit = 1 /\ calls.commit' = 2) =>
             /\ i = num_users
             /\ users_created = num_users
             /\ Len(session) = num_users
             /\ Phase = "SeedingPopulation"]_vars

\* A build of two users has gone through every phase and has returned.
C15_Witness ==
    /\ pc = "return"
    /\ Phase = "Committed"
    /\ num_users = 2
    /\ calls = [reset |-> 2, create |-> 5, commit |-> 2, failed |-> 0]

\* C16: while the population is seeded no commit is issued and the users and
\* books only accumulate in the session; one commit is issued when the loop
\* over all num_users users has ended, and no population user or book is in
\* the store before that commit has returned.
C16_SingleCommit ==
    /\ [](Phase = "SeedingPopulation" =>
             /\ calls.commit = 1
             /\ Len(session) = users_created
             /\ Population(db.users) = {}
             /\ NumBooks(db.users) = 0)
    /\ [][(Phase = "SeedingPopulation" /\ calls.commit' # calls.commit) =>
             /\ calls.commit' = 2
             /\ i = num_users
             /\ Len(session) = num_users
             /\ NumBooks(session) = num_users * books_per_user
             /\ Phase' \in {"Committed", "Failed"}]_vars
    /\ [](calls.commit <= 2)
    /\ []((Dropped /\ (Population(db.users) # {} \/ NumBooks(db.users) > 0)) =>
             /\ calls.commit = 2
             /\ calls.failed = 0)

\* The books of the second of two users have been made, and nothing of the
\* population is in the store.
C16_Witness ==
    /\ pc = "books"
    /\ i = 1
    /\ books_per_user = 2
    /\ b = 2
    /\ Len(session) = 2
    /\ NumBooks(session) = 2
    /\ calls.commit = 1
    /\ Len(db.users) = 3

\* A call raised while the population was seeded: a session.add of a
\* population user, or the final commit.
FailedInPopulation ==
    calls.failed = 1 /\ (calls.create > Len(default_users) \/ calls.commit = 2)

\* C17: when a call raises while the population is seeded (the final commit
\* included) the build ends as Failed with exit code 1, and the store is
\* left reset and partly populated: what it held before is gone, the three
\* fixed accounts are in it, no population user and no book is. Nothing
\* resumes the build: the process issues no further call, and a new process
\* starts again before the reset.
C17_FailedPopulation ==
    /\ [](FailedInPopulation =>
             /\ Phase = "Failed"
             /\ db.tables
             /\ Usernames(db.users) = << "admin", "name1", "name2" >>
             /\ NumBooks(db.users) = 0
             /\ pc = "exit" => exit_code = 1)
    /\ [][(FailedInPopulation /\ run' = run) =>
             /\ db' = db
             /\ calls' = calls
             /\ session' = session
             /\ pc' = "exit"
             /\ exit_code' = 1]_vars
    /\ [][(FailedInPopulation /\ run' # run) =>
             /\ pc' = "main"
             /\ calls' = NoCalls
             /\ session' = <<>>
             /\ users_created' = 0
             /\ existing_usernames' = {}]_vars

\* The session.add of the second of two users raised, after the two books of
\* the first; the process has ended.
C17_Witness ==
    /\ pc = "exit"
    /\ exit_code = 1
    /\ calls = [reset |-> 2, create |-> 5, commit |-> 1, failed |-> 1]
    /\ Len(session) = 1
    /\ NumBooks(session) = 2
    /\ Len(db.users) = 3

\* C18: a build does not retry: db.drop_all and db.create_all are each called
\* at most once and at most one call raises; once a call has raised the
\* process issues no further call and changes neither the store nor the
\* session; after a failed reset no user was created, and after a failure
\* while the fixed accounts were seeded no population user or book was.
C18_FailFast ==
    /\ [](calls.reset <= 2 /\ calls.failed <= 1)
    /\ [][(calls.failed > 0 /\ run' = run) =>
             /\ calls' = calls
             /\ db' = db
             /\ session' = session
             /\ pc' = "exit"]_vars
    /\ []((calls.failed = 1 /\ calls.create = 0) =>
             /\ calls.commit = 0
             /\ session = <<>>
             /\ d = 0)
    /\ []((calls.failed = 1 /\ (calls.commit = 0 \/
                                (calls.commit = 1 /\ calls.create = 3))) =>
             /\ calls.create <= Len(default_users)
             /\ users_created = 0
             /\ books_created = 0
             /\ first_names = <<>>
             /\ Population(Created) = {})

\* db.drop_all raised on a store that held a user: the process has ended
\* after that one call.
C18_Witness ==
    /\ pc = "exit"
    /\ exit_code = 1
    /\ calls = [reset |-> 1, create |-> 0, commit |-> 0, failed |-> 1]
    /\ Len(db.users) = 1

\* The titles of the books made so far in a build, in the order the books
\* were made: those of the users created, and those of user_books while the
\* books of a user are being made.
TitlesSoFar ==
    Titles(Created) \o
    (IF pc = "books"
     THEN [k \in DOMAIN user_books |-> user_books[k].book_title]
     ELSE <<>>)

\* C19: at every point of the loop over the sample users all_used_titles is
\* the set of the titles of all books made so far in the run, those of the
\* fallback branch included, and the title of each book was not among the
\* titles of the books made before it.
C19_UsedTitlesComplete ==
    pc \in {"users", "books"} =>
        /\ all_used_titles = Range(TitlesSoFar)
        /\ Distinct(TitlesSoFar)

\* Every title the templates can produce, on the whole pools of genres and
\* topics.
AllTemplateTitles ==
    UNION {Range(templates(genre, topic)) :
              genre \in Range(BOOK_GENRES), topic \in Range(BOOK_TOPICS)}

\* C20: a title of the fallback branch is not empty, is not a title of the
\* templates, and differs from the title of every other book of the run,
\* whatever integers were drawn: it ends with the index of its user and with
\* the number of books made before it, which no other book shares. The
\* fallback titles a run can produce are compared with the template titles
\* and with one another when its loop starts; the books of the run that did
\* not take their title from a sampling (the title is not in
\* all_used_titles) are compared with the other books at every point; every
\* book made adds one to the count.
C20_FallbackUnique ==
    /\ [](pc = "sample" =>
             \A idx \in 0 .. num_users - 1,
                created \in 0 .. num_users * books_per_user - 1 :
                \A t \in FallbackTitles(idx, created) :
                   /\ t # ""
                   /\ t \notin AllTemplateTitles
                   /\ \A idx2 \in 0 .. num_users - 1,
                         created2 \in 0 .. num_users * books_per_user - 1 :
                         created2 # created =>
                             t \notin FallbackTitles(idx2, created2))
    /\ [][(run' = run /\ books_created' # books_created) =>
             (books_created' = 0 \/ books_created' = books_created + 1)]_vars
    /\ [](LET made == TitlesSoFar
          IN  /\ Len(made) = books_created
              /\ \A k \in DOMAIN made :
                    made[k] \notin all_used_titles =>
                        /\ made[k] \in
                               FallbackTitles((k - 1) \div books_per_user, k - 1)
                        /\ \A j \in DOMAIN made : j # k => made[j] # made[k])

\* The two books of the second user both have a fallback title, made with
\* the same integer drawn.
C20_Witness ==
    /\ Succeeded
    /\ Len(TitlesSoFar) = 4
    /\ TitlesSoFar[3] = "Book 10000-1-2"
    /\ TitlesSoFar[4] = "Book 10000-1-3"

\* C21: in the sampling branch of the title loop the title of the book is the
\* first candidate sampled that is not in all_used_titles: every candidate
\* sampled before it was in the set and was rejected, at most 100
\* candidates are sampled, the accepted candidate is added to the set, and
\* the set is otherwise left as it was.
C21_FirstUnusedCandidate ==
    /\ [](pc = "title_loop" =>
             /\ all_used_titles = frame.used
             /\ attempts = frame.sampled)
    /\ [][(pc = "title_loop" /\ frame'.sampled = frame.sampled + 1) =>
             IF title' \in all_used_titles
             THEN /\ pc' = "title_loop"
                  /\ attempts' = attempts + 1
                  /\ all_used_titles' = all_used_titles
             ELSE /\ pc' = "title_done"
                  /\ attempts' = attempts
                  /\ all_used_titles' = all_used_titles \cup {title'}]_vars
    /\ []((pc = "title_done" /\ frame.fallbacks = 0) =>
             /\ title \in SampledTitles \ frame.used
             /\ all_used_titles = frame.used \cup {title}
             /\ frame.sampled = attempts + 1
             /\ frame.sampled <= MaxAttempts)

\* The third candidate sampled was accepted, after two that were in the set.
C21_Witness ==
    /\ pc = "title_done"
    /\ frame.fallbacks = 0
    /\ frame.sampled = 3
    /\ attempts = 2
    /\ title \notin frame.used
    /\ all_used_titles = SampledTitles

\* C22: generate_username(first, last, used) returns the lower-cased
\* "first.last" when it is not in used, and otherwise "first.last" followed
\* by the smallest k >= 1 for which that string is not in used, the suffixes
\* 1, 2, 3, ... being tried in ascending order; it leaves used as it was.
C22_SmallestSuffix ==
    /\ [](pc = "username_done" =>
             LET base == Lower(frame.first_name) \o "." \o Lower(frame.last_name)
             IN  IF base \notin existing_usernames
                 THEN frame.username = base /\ frame.counter = 1
                 ELSE \E k \in 1 .. MaxSuffix + 1 :
                         /\ frame.username = base \o ToString(k)
                         /\ frame.username \notin existing_usernames
                         /\ \A j \in 1 .. k - 1 :
                               base \o ToString(j) \in existing_usernames
                         /\ frame.counter = k + 1)
    /\ [][(pc = "username_loop" /\ frame'.username # frame.username) =>
             /\ frame'.username = frame.base_username \o ToString(frame.counter)
             /\ frame'.counter = frame.counter + 1]_vars
    /\ [][existing_usernames' = existing_usernames]_vars

\* generate_username has returned the suffix 2 on a set that holds the plain
\* handle and the suffixes 1 and 3: the smallest free suffix, not the one
\* after the largest.
C22_Witness ==
    /\ pc = "username_done"
    /\ frame.username = "alice.smith2"
    /\ {"alice.smith", "alice.smith1", "alice.smith3"} \subseteq existing_usernames

\* The users that have a book of the given title in their collection.
Owners(users, book_title) ==
    {k \in DOMAIN users :
        \E j \in DOMAIN users[k].books :
            users[k].books[j].book_title = book_title}

\* Every book made is in the collection of exactly one of the users, once,
\* and every population user has books_per_user books.
OwnedOnce(users) ==
    /\ LET made == Titles(users)
       IN  /\ Len(made) = books_created
           /\ Distinct(made)
           /\ \A k \in DOMAIN made :
                 Cardinality(Owners(users, made[k])) = 1
    /\ \A k \in Population(users) : Len(users[k].books) = books_per_user
    /\ \A k \in DOMAIN users \ Population(users) : users[k].books = <<>>

\* C23: when the final commit is issued, and in the store once it has
\* returned, every book made by the build is in the collection of exactly
\* one user (none is left without a user and none is in two collections),
\* and every population user has exactly books_per_user books.
C23_OneOwner ==
    /\ []((pc = "users" /\ i = num_users) =>
             /\ Len(session) = num_users
             /\ books_created = num_users * books_per_user
             /\ OwnedOnce(session))
    /\ [](Succeeded => OwnedOnce(db.users))

\* The final commit of a build of two users with two books each is about to
\* be issued.
C23_Witness ==
    /\ pc = "users"
    /\ i = num_users
    /\ num_users = 2
    /\ books_per_user = 2
    /\ calls.commit = 1
    /\ NumBooks(session) = 4

\* The largest --users that is within both name pools.
WithinPools == Min(Len(FIRST_NAMES), Len(LAST_NAMES))

\* C24: when --users is within both name pools (at most 27) the two samples
\* have one name per user and no name twice, so that no two population users
\* share a first name or a last name, and every population handle is the
\* plain "first.last" of its user, without a suffix.
C24_WithoutReplacement ==
    (pc = "names" /\ num_users <= WithinPools) =>
        /\ Len(first_names) = num_users
        /\ Len(last_names) = num_users
        /\ \A j, k \in 0 .. num_users - 1 :
              j # k => /\ NamePair(j)[1] # NamePair(k)[1]
                       /\ NamePair(j)[2] # NamePair(k)[2]
        /\ Len(frame.usernames) = i
        /\ \A k \in 0 .. i - 1 : frame.usernames[k + 1] = PlainHandle(k)
        /\ Distinct(frame.usernames)

\* The 27 handles of a run of --users 27 on the pools in their order.
C24_Witness ==
    /\ pc = "names"
    /\ num_users = 27
    /\ i = 27
    /\ frame.usernames[1] = "alice.smith"
    /\ frame.usernames[27] = "aria.clark"

Kept(old, new) ==
    /\ Len(new) >= Len(old)
    /\ \A k \in DOMAIN old : new[k] = old[k]

\* The user without its book collection.
Scalars(user) == [user EXCEPT !.books = <<>>]

\* C26 as stated: in one build a user handed to the session is never changed
\* afterwards, its book collection included, a book keeps its title, its
\* secret and its owner from its creation on, and only the reset removes
\* anything from the store.
C26_NeverUpdated ==
    /\ [][pc # "exit" => Kept(Created, Created')]_vars
    /\ [][pc = "books" => Kept(user_books, user_books')]_vars
    /\ [][pc \notin {"drop_all", "exit"} => Kept(db.users, db'.users)]_vars

\* C26, amended: in one build no user and no book is removed once created,
\* the handle, the password, the email and the admin flag of a user handed
\* to the session never change, its book collection is empty until the end of
\* its iteration, is assigned there once, to the books created in that
\* iteration, and never changes afterwards; a book keeps its title and its
\* secret, has no owner until that assignment and keeps the owner it gets
\* there; only the reset removes anything from the store.
C26_UpdatedOnce ==
    /\ [][pc # "exit" =>
             LET old == Created
                 new == Created'
             IN  /\ Len(new) >= Len(old)
                 /\ \A k \in DOMAIN old :
                       /\ Scalars(new[k]) = Scalars(old[k])
                       /\ \/ new[k].books = old[k].books
                          \/ /\ old[k].books = <<>>
                             /\ k = Len(old)
                             /\ pc = "books"
                             /\ b = books_per_user
                             /\ pc' = "users"
                             /\ new[k].books = user_books]_vars
    /\ [][pc = "books" => Kept(user_books, user_books')]_vars
    /\ [](\A k \in DOMAIN user_books :
             pc = "books" => Owners(Created, user_books[k].book_title) = {})
    /\ [][pc \notin {"drop_all", "exit"} => Kept(db.users, db'.users)]_vars

\* The first sample user has its books, the second is in the session without
\* books yet, and a book of the second has been created.
C26_Witness ==
    /\ pc = "books"
    /\ Len(session) = 2
    /\ Len(session[1].books) = books_per_user
    /\ session[2].books = <<>>
    /\ Len(user_books) >= 1

\* C27: a call of bootstrap_database that follows another call in the same
\* process has an empty set of used handles when it comes to the fixed
\* accounts and an empty set of used titles when it comes to the sample
\* users, and in its loops the two sets hold handles and titles of its own
\* users and books only, whatever the earlier call allocated.
C27_SetsPerInvocation ==
    run = "second" =>
        /\ (pc = "defaults" /\ d = 0) => existing_usernames = {}
        /\ (pc = "users" /\ i = 0) =>
              /\ all_used_titles = {}
              /\ existing_usernames = FixedHandles
        /\ pc \in {"users", "books"} =>
              /\ existing_usernames = Range(Usernames(Created))
              /\ all_used_titles \subseteq Range(TitlesSoFar)

\* The second call has made a book of its own after a first call that
\* committed books: the set of used titles holds this one title.
C27_Witness ==
    /\ run = "second"
    /\ prev.books >= 2
    /\ pc = "books"
    /\ i = 0
    /\ b = 1
    /\ Cardinality(all_used_titles) = 1
    /\ Cardinality(existing_usernames) = 4

RECURSIVE Gcd(_, _)
Gcd(m, n) == IF n = 0 THEN m ELSE Gcd(n, m % n)

Lcm(m, n) == (m * n) \div Gcd(m, n)

\* The number of users after which the pairs of names come again.
NamePeriod == Lcm(Len(first_names), Len(last_names))

\* The handle of a name pair at its q-th repetition.
SuffixedHandle(idx, q) ==
    IF q = 0 THEN PlainHandle(idx) ELSE PlainHandle(idx) \o ToString(q)

\* C28: the samples have min(N, 30) and min(N, 27) names, the name pair of
\* the user of index i comes again exactly every lcm of the two lengths, 270
\* whenever N > 30; up to 270 users no two users have the same name pair and
\* every handle is the plain "first.last"; beyond, the user of index i has the
\* suffix floor(i / 270), and none when that is 0.
C28_SuffixByPeriod ==
    pc = "names" =>
        /\ Len(first_names) = Min(num_users, 30)
        /\ Len(last_names) = Min(num_users, 27)
        /\ num_users > 30 => NamePeriod = 270
        /\ num_users <= 270 => NamePeriod >= num_users
        /\ i >= 1 =>
              /\ Len(frame.usernames) = i
              /\ frame.usernames[i] = SuffixedHandle(i - 1, (i - 1) \div NamePeriod)
              /\ num_users <= 270 => frame.usernames[i] = PlainHandle(i - 1)
              /\ \A j \in 0 .. i - 2 :
                    NamePair(j) = NamePair(i - 1) <=> (i - 1 - j) % NamePeriod = 0
              /\ num_users > 270 =>
                    frame.usernames[i] = SuffixedHandle(i - 1, (i - 1) \div 270)

\* The 541 handles of a run on the pools in their order: the first pair of
\* names comes for the third time with the last user.
C28_Witness ==
    /\ pc = "names"
    /\ num_users = 541
    /\ i = 541
    /\ frame.usernames[1] = "alice.smith"
    /\ frame.usernames[270] = "derek.clark"
    /\ frame.usernames[271] = "alice.smith1"
    /\ frame.usernames[541] = "alice.smith2"

\* The three fixed accounts as the store holds them.
FixedUsers ==
    [k \in DOMAIN default_users |->
        User(default_users[k].username, default_users[k].password,
             default_users[k].email, default_users[k].admin)]

\* The whole dataset of a run: the fixed accounts, then num_users users with
\* books_per_user books each, which are all the books the run has made.
FullDataset(users) ==
    /\ Len(users) = Len(default_users) + num_users
    /\ SubSeq(users, 1, Len(default_users)) = FixedUsers
    /\ \A k \in Len(default_users) + 1 .. Len(users) :
          Len(users[k].books) = books_per_user
    /\ NumBooks(users) = books_created

AfterReset == calls.reset = 2

\* C30 as stated: at every point after the reset existing_usernames is the
\* set of the handles of the users created so far, and has as many members
\* as there are such users.
C30_UsedHandlesExact ==
    AfterReset =>
        /\ existing_usernames = Range(Usernames(Created))
        /\ Cardinality(existing_usernames) = Len(Created)

\* C30, amended: after the reset existing_usernames is the set of the handles
\* of the users created so far, with as many members as there are such users,
\* at the end of every iteration of the two loops and from there on as long
\* as no call has failed; the loop over the sample users adds the handle
\* before it creates the user, so that the set is one handle ahead of the
\* users when that creation fails. The set only grows.
C30_UsedHandlesAtIterations ==
    /\ []((AfterReset /\ calls.failed = 0) =>
             /\ existing_usernames = Range(Usernames(Created))
             /\ Cardinality(existing_usernames) = Len(Created)
             /\ pc \in {"users", "books", "return", "exit"} =>
                   Len(Created) = Len(default_users) + users_created)
    /\ []((AfterReset /\ calls.failed > 0) =>
             /\ Range(Usernames(Created)) \subseteq existing_usernames
             /\ Cardinality(existing_usernames) \in
                   {Len(Created), Len(Created) + 1}
             /\ Cardinality(existing_usernames) = Len(Created) + 1 =>
                   /\ Len(Created) = Len(default_users) + users_created
                   /\ users_created < num_users
                   /\ calls.commit = 1)
    /\ [][(AfterReset /\ pc # "exit") =>
             existing_usernames \subseteq existing_usernames']_vars

\* The creation of the second sample user has failed: its handle is in the
\* set, and the first sample user is the only one created.
C30_Witness ==
    /\ pc = "raised"
    /\ AfterReset
    /\ users_created = 1
    /\ Len(Created) = 4
    /\ Cardinality(existing_usernames) = 5

====
